---- MODULE Spec2Model ----
(***************************************************************************)
(* State-machine model of the ToDo token application (src/src/App.js).     *)
(*                                                                         *)
(* The React state of the App component, the three asynchronous handlers   *)
(* (the load effect, handleCreateSubmit, handleCompleteSubmit) cut at      *)
(* their await points, and the external collaborators they talk to (the    *)
(* bridge index behind parapet and createAction) are the state machine.    *)
(* JavaScript object identity (x === selectedTask) is kept in the field    *)
(* obj of every task object; the empty object {} has obj = 0.              *)
(*                                                                         *)
(* An action is one run of the event loop: a handler from its start, or    *)
(* from the answer of the call it awaits, up to its next await or its end  *)
(* (catch and finally included).  createAction is cut in two, the moment   *)
(* the transaction reaches the ledger and the bridge, and the moment its   *)
(* answer reaches the page, since a bridge query can be answered between   *)
(* the two.                                                                *)
(*                                                                         *)
(* Spec is the whole page.  LoadSpec is the load effect alone, over more   *)
(* fetched records; FormSpec is creation beside the load of an empty list, *)
(* over amounts around the thresholds.                                     *)
(***************************************************************************)
EXTENDS Integers, Sequences, FiniteSets, TLC

\* ------------------------------------------------------------------ bounds
MaxTokens == 2          \* tokens of the user: found at load or created later
MaxFetch == 3           \* tokens found at load where the load runs alone

\* --------------------------------------------------------- program constants
MinAmount == 500        \* App.js:160  Number(createAmount) < 500
MessageThreshold == 200 \* App.js:161  'more than 200 satoshis'
DefaultAmount == 1000   \* App.js:59 and App.js:234

PlaceholderText == "[error] Unable to decrypt task!"

\* the notifications (toast.error, toast.dark)
ToastNone == "none"
ToastEmptyTask == "Enter a task to complete!"
ToastEmptyAmount == "Enter an amount for the new task!"
ToastAmountTooLow == "The amount must be more than 200 satoshis!"
ToastCreated == "Task successfully created!"
ToastCreateError == "e.message"
ToastCompleted == "Congrats! Task complete"
ToastCompleteError == "Error completing task: e.message"
ToastLoadError == "Failed to load ToDo tasks! Does the app have permission?"

\* ------------------------------------------------------------ input domains
\* texts typed into the 'Task to complete' field
TaskInputs == {"", "milk"}
\* texts of the tasks already on the bridge
BridgeTexts == {"old"}
FetchTexts == {"old", "rent"}
\* key strokes typed into the 'Completion amount' field, one character each
AmountInputs ==
  { << >>, <<"a", "b", "c">>, <<"3", "0", "0">>, <<"1", "0", "0", "0">> }
\* the same, around the two thresholds (FormSpec)
WideAmountInputs ==
  { << >>, <<"a", "b", "c">>, <<"0">>, <<"2", "0", "0">>, <<"2", "0", "1">>,
    <<"4", "9", "9">>, <<"5", "0", "0">>, <<"1", "0", "0", "0">> }

\* ------------------------------------------------------- pure helper functions
Digits == {"0", "1", "2", "3", "4", "5", "6", "7", "8", "9"}

DigitVal(c) ==
  CASE c = "0" -> 0 [] c = "1" -> 1 [] c = "2" -> 2 [] c = "3" -> 3
    [] c = "4" -> 4 [] c = "5" -> 5 [] c = "6" -> 6 [] c = "7" -> 7
    [] c = "8" -> 8 [] c = "9" -> 9

IsDigits(s) == \A i \in 1..Len(s) : s[i] \in Digits

RECURSIVE DigitsVal(_)
DigitsVal(s) ==
  IF s = << >> THEN 0
  ELSE 10 * DigitsVal(SubSeq(s, 1, Len(s) - 1)) + DigitVal(s[Len(s)])

\* JavaScript numbers: nan marks NaN, v is the value otherwise
Num(n) == [nan |-> FALSE, v |-> n]
NaN == [nan |-> TRUE, v |-> 0]

\* a value of the createAmount state: the number 1000 (useState, reset) or
\* the string the amount field delivered
NumberValue(n) == [type |-> "number", n |-> n, s |-> << >>]
StringValue(s) == [type |-> "string", n |-> 0, s |-> s]

\* Number(x): a number is itself, "" is 0, a digit string is its value,
\* anything else is NaN
ToNumber(x) ==
  IF x.type = "number" THEN Num(x.n)
  ELSE IF IsDigits(x.s) THEN Num(DigitsVal(x.s))
  ELSE NaN

\* !x : 0 and "" are falsy
Falsy(x) == IF x.type = "number" THEN x.n = 0 ELSE x.s = << >>

\* a < b on JavaScript numbers: every comparison with NaN is false
LessThan(a, b) == ~a.nan /\ ~b.nan /\ a.v < b.v

\* a slip: a text field, whose value is what was typed
TextFieldValue(raw) == raw

\* <TextField type='number'>: the value of a number input that does not hold
\* a valid number is the empty string
NumberFieldValue(raw) == IF raw # << >> /\ IsDigits(raw) THEN raw ELSE << >>

\* encrypt / decrypt of the SDK under the 'todo list' scope
Encrypt(plaintext) == <<"enc", plaintext>>
Decrypt(ciphertext) == ciphertext[2]

\* base64 text of the payload as the bridge stores it, and Buffer.from(.., 'base64')
Base64(bytes) == <<"b64", bytes>>
FromBase64(text) == text[2]

\* pushdrop.create: fields [namespace, encrypted task] locked under the key
TODO_PROTO_ADDR == "1ToDoDtKreEzbHYKFjmoBuduFmSXXUGZG"
PushdropCreate(encryptedTask) == <<"lock", TODO_PROTO_ADDR, encryptedTask>>

RECURSIVE Reverse(_)
Reverse(s) ==
  IF s = << >> THEN << >> ELSE Append(Reverse(Tail(s)), Head(s))

\* oldTasks.findIndex(x => x === selectedTask): the 0-based index of the
\* first element that is the object o, or -1
RECURSIVE FindIndexFrom(_, _, _)
FindIndexFrom(arr, o, i) ==
  IF i >= Len(arr) THEN -1
  ELSE IF arr[i + 1].obj = o.obj THEN i
  ELSE FindIndexFrom(arr, o, i + 1)

FindIndex(arr, o) == FindIndexFrom(arr, o, 0)

\* arr.splice(start, 1): a negative start counts from the end (-1 is the last
\* element), a start beyond the ends is clamped, one element is deleted
SpliceOne(arr, start) ==
  LET len == Len(arr)
      from == IF start < 0
              THEN (IF len + start < 0 THEN 0 ELSE len + start)
              ELSE (IF start > len THEN len ELSE start)
  IN SubSeq(arr, 1, from) \o SubSeq(arr, from + 2, len)

\* the object {} and a slot of Promise.all that has not settled
EmptyObject == [obj |-> 0]
Pending == [obj |-> 0]

\* a record as the bridge returns it
RawRecord(txid, sats, cipher) ==
  [ task |-> Base64(cipher), sats |-> Num(sats),
    token |-> [ txid |-> txid, outputIndex |-> 0,
                lockingScript |-> PushdropCreate(cipher) ] ]

\* the bridge contents the page can find at load: chronological, one output
\* per transaction (whether a payload decrypts is decided when decrypt answers)
RECURSIVE BridgeStates(_, _)
BridgeStates(texts, n) ==
  IF n = 0 THEN { << >> }
  ELSE LET shorter == BridgeStates(texts, n - 1)
           ciphers == {Encrypt(t) : t \in texts}
       IN shorter \cup
          { Append(b, RawRecord(n, DefaultAmount * n, c)) :
              b \in {x \in shorter : Len(x) = n - 1}, c \in ciphers }

\* ------------------------------------------------------------------- state
VARIABLES
  createOpen,       \* useState(false)   App.js:57
  createTask,       \* useState('')      App.js:58
  createAmount,     \* useState(1000)    App.js:59
  createLoading,    \* useState(false)   App.js:60
  tasksLoading,     \* useState(true)    App.js:61
  tasks,            \* useState([])      App.js:62, the record store
  completeOpen,     \* useState(false)   App.js:63
  selectedTask,     \* useState({})      App.js:64
  completeLoading,  \* useState(false)   App.js:65
  spliced,          \* the start index of the last splice, if any
  toast,            \* the notification shown last
  load,             \* the load effect: its await point and its locals
  create,           \* the running handleCreateSubmit: await point and closure
  complete,         \* the running handleCompleteSubmit: await point and closure
  bridge,           \* what the ToDo bridge has indexed for this user
  nextTx,           \* the next transaction id the ledger hands out
  nextObj           \* the next JavaScript object identity

vars ==
  << createOpen, createTask, createAmount, createLoading, tasksLoading, tasks,
     completeOpen, selectedTask, completeLoading, spliced, toast, load,
     create, complete, bridge, nextTx, nextObj >>

uiVars == << createOpen, createTask, createAmount, completeOpen, selectedTask >>

IdleCreate ==
  [ pc |-> "idle", task |-> "", amount |-> NumberValue(0),
    enc |-> << >>, script |-> << >>, txid |-> 0, seen |-> << >> ]

IdleComplete ==
  [ pc |-> "idle", sel |-> EmptyObject, seen |-> << >>,
    request |-> << >>, inputs |-> << >> ]

\* the page right after mount, over a bridge holding one of the given states
Mounted(bridgeStates) ==
  /\ createOpen = FALSE
  /\ createTask = ""
  /\ createAmount = NumberValue(DefaultAmount)
  /\ createLoading = FALSE
  /\ tasksLoading = TRUE
  /\ tasks = << >>
  /\ completeOpen = FALSE
  /\ selectedTask = EmptyObject
  /\ completeLoading = FALSE
  /\ spliced = << >>
  /\ toast = ToastNone
  \* the effect runs at mount and is suspended in getPublicKey
  /\ load = [ pc |-> "getPublicKey", fetched |-> << >>, out |-> << >>,
              failed |-> {}, base |-> 0 ]
  /\ create = IdleCreate
  /\ complete = IdleComplete
  /\ bridge \in bridgeStates
  /\ nextTx = Len(bridge) + 1
  /\ nextObj = 1

Init == Mounted(BridgeStates(BridgeTexts, MaxTokens - 1))

\* ------------------------------------------------------------ the load effect
\* getPublicKey resolves: the bridge query is sent
GetPublicKeyOk ==
  /\ load.pc = "getPublicKey"
  /\ load' = [load EXCEPT !.pc = "parapet"]
  /\ UNCHANGED << toast, spliced, uiVars, createLoading, tasksLoading, tasks,
                  completeLoading, create, complete, bridge, nextTx,
                  nextObj >>

\* a slip of the catch branch: the store is cleared
LoadFailedClearsStore ==
  /\ tasksLoading' = FALSE
  /\ tasks' = << >>
  /\ load' = [load EXCEPT !.pc = "failed"]
  /\ toast' = ToastLoadError
  /\ UNCHANGED << spliced, uiVars, createLoading, completeLoading, create,
                  complete, bridge, nextTx, nextObj >>

\* catch + finally of the effect
LoadFailed ==
  /\ tasksLoading' = FALSE
  /\ load' = [load EXCEPT !.pc = "failed"]
  /\ toast' = ToastLoadError
  /\ UNCHANGED << spliced, uiVars, createLoading, tasks, completeLoading,
                  create, complete, bridge, nextTx, nextObj >>

GetPublicKeyFail ==
  /\ load.pc = "getPublicKey"
  /\ LoadFailed

\* parapet answers with what the bridge holds; every decrypt is started
ParapetOk ==
  /\ load.pc = "parapet"
  /\ load' = [load EXCEPT !.pc = "decrypt", !.fetched = bridge,
                          !.out = [i \in 1..Len(bridge) |-> Pending],
                          !.base = nextObj]
  \* the objects the map callbacks will make: one per fetched record
  /\ nextObj' = nextObj + Len(bridge)
  /\ UNCHANGED << toast, spliced, uiVars, createLoading, tasksLoading, tasks,
                  completeLoading, create, complete, bridge, nextTx >>

ParapetFail ==
  /\ load.pc = "parapet"
  /\ LoadFailed

\* a slip: the results are collected in the order the decrypts are answered
SettleInAnswerOrder(out, i, value) ==
  LET first == CHOOSE j \in 1..Len(out) :
                 out[j].obj = 0 /\ \A h \in 1..j - 1 : out[h].obj # 0
  IN [out EXCEPT ![first] = value]

\* where the result of the i-th map callback goes in Promise.all's array
SettleSlot(out, i, value) == [out EXCEPT ![i] = value]

\* one decrypt resolves: {...task, task: decryptedTask}
DecryptOk(i) ==
  /\ load.pc = "decrypt"
  /\ i \in 1..Len(load.fetched)
  /\ load.out[i].obj = 0
  /\ load' = [load EXCEPT !.out = SettleSlot(load.out, i,
                [ obj |-> load.base + i - 1,
                  task |-> Decrypt(FromBase64(load.fetched[i].task)),
                  sats |-> load.fetched[i].sats,
                  token |-> load.fetched[i].token ])]
  /\ UNCHANGED << toast, spliced, uiVars, createLoading, tasksLoading, tasks,
                  completeLoading, create, complete, bridge, nextTx,
                  nextObj >>

\* one decrypt rejects: {...task, task: '[error] Unable to decrypt task!'}
DecryptFail(i) ==
  /\ load.pc = "decrypt"
  /\ i \in 1..Len(load.fetched)
  /\ load.out[i].obj = 0
  /\ load' = [load EXCEPT !.out = SettleSlot(load.out, i,
                [ obj |-> load.base + i - 1,
                  task |-> PlaceholderText,
                  sats |-> load.fetched[i].sats,
                  token |-> load.fetched[i].token ]),
                          !.failed = load.failed \cup {i}]
  /\ UNCHANGED << toast, spliced, uiVars, createLoading, tasksLoading, tasks,
                  completeLoading, create, complete, bridge, nextTx,
                  nextObj >>

\* what a finished load puts in the store
LoadedTasks(decryptedTasks) == Reverse(decryptedTasks)

\* a slip: the loaded records are put behind what the store holds
LoadSetTasksKeepsStore ==
  /\ load.pc = "decrypt"
  /\ \A i \in 1..Len(load.out) : load.out[i].obj # 0
  /\ tasks' = tasks \o LoadedTasks(load.out)
  /\ tasksLoading' = FALSE
  /\ load' = [load EXCEPT !.pc = "done"]
  /\ UNCHANGED << toast, spliced, uiVars, createLoading, completeLoading,
                  create, complete, bridge, nextTx, nextObj >>

\* Promise.all resolved: setTasks(decryptedTasks.reverse()), then finally
LoadSetTasks ==
  /\ load.pc = "decrypt"
  /\ \A i \in 1..Len(load.out) : load.out[i].obj # 0
  /\ tasks' = LoadedTasks(load.out)
  /\ tasksLoading' = FALSE
  /\ load' = [load EXCEPT !.pc = "done"]
  /\ UNCHANGED << toast, spliced, uiVars, createLoading, completeLoading,
                  create, complete, bridge, nextTx, nextObj >>

\* ------------------------------------------------------- the creation dialog
\* the plus button: setCreateOpen(true); it is there while the list loads.
\* The user stops opening the dialog once there are MaxTokens tokens.
OpenCreate ==
  /\ ~createOpen
  /\ nextTx <= MaxTokens
  /\ createOpen' = TRUE
  /\ UNCHANGED << toast, spliced, createTask, createAmount, createLoading,
                  tasksLoading, tasks, completeOpen, selectedTask,
                  completeLoading, load, create, complete, bridge, nextTx,
                  nextObj >>

\* Cancel or the dialog's onClose: setCreateOpen(false)
CloseCreate ==
  /\ createOpen
  /\ createOpen' = FALSE
  /\ UNCHANGED << toast, spliced, createTask, createAmount, createLoading,
                  tasksLoading, tasks, completeOpen, selectedTask,
                  completeLoading, load, create, complete, bridge, nextTx,
                  nextObj >>

\* onChange of the task field. The fields are read by handleCreateSubmit
\* only, which cannot start while createLoading; typing is modelled while no
\* create is running.
SetCreateTask ==
  /\ createOpen
  /\ ~createLoading
  /\ \E v \in TaskInputs :
       /\ v # createTask
       /\ createTask' = v
  /\ UNCHANGED << toast, spliced, createOpen, createAmount, createLoading,
                  tasksLoading, tasks, completeOpen, selectedTask,
                  completeLoading, load, create, complete, bridge, nextTx,
                  nextObj >>

\* onChange of the amount field, a number input
SetCreateAmountFrom(inputs) ==
  /\ createOpen
  /\ ~createLoading
  /\ \E raw \in inputs :
       /\ StringValue(NumberFieldValue(raw)) # createAmount
       /\ createAmount' = StringValue(NumberFieldValue(raw))
  /\ UNCHANGED << toast, spliced, createOpen, createTask, createLoading,
                  tasksLoading, tasks, completeOpen, selectedTask,
                  completeLoading, load, create, complete, bridge, nextTx,
                  nextObj >>

SetCreateAmount == SetCreateAmountFrom(AmountInputs)

\* the three checks at the head of handleCreateSubmit
EmptyTask(text) == text = ""
EmptyAmount(amount) == Falsy(amount)
\* a slip: the threshold of the message is the one enforced
AmountNotAboveMessageThreshold(amount) ==
  ~LessThan(Num(MessageThreshold), ToNumber(amount))
AmountTooLow(amount) == LessThan(ToNumber(amount), Num(MinAmount))

Validate(text, amount) ==
  IF EmptyTask(text) THEN ToastEmptyTask
  ELSE IF EmptyAmount(amount) THEN ToastEmptyAmount
  ELSE IF AmountTooLow(amount) THEN ToastAmountTooLow
  ELSE ToastNone

\* handleCreateSubmit up to its first await: the OK button is rendered only
\* while createLoading is false
HandleCreateSubmit ==
  /\ createOpen
  /\ ~createLoading
  /\ LET verdict == Validate(createTask, createAmount) IN
       IF verdict # ToastNone
       THEN \* toast.error(..); return; finally setCreateLoading(false)
                      /\ toast' = verdict
            /\ createLoading' = FALSE
            /\ UNCHANGED create
       ELSE \* setCreateLoading(true); encrypt is called
            /\ nextTx <= MaxTokens
            /\ createLoading' = TRUE
            /\ create' = [IdleCreate EXCEPT !.pc = "encrypt",
                                            !.task = createTask,
                                            !.amount = createAmount,
                                            !.seen = tasks]
            /\ UNCHANGED toast
  /\ UNCHANGED << spliced, uiVars, tasksLoading, tasks, completeLoading, load,
                  complete, bridge, nextTx, nextObj >>

\* a slip: the record is put in the store before the calls and stays there
CreateFailedLeavesRecord ==
  /\ createLoading' = FALSE
  /\ tasks' = <<[ obj |-> nextObj, task |-> create.task,
                  sats |-> ToNumber(create.amount),
                  token |-> [ txid |-> 0, outputIndex |-> 0,
                              lockingScript |-> create.script ] ]>> \o tasks
  /\ nextObj' = nextObj + 1
  /\ create' = IdleCreate
  /\ toast' = ToastCreateError
  /\ UNCHANGED << spliced, uiVars, tasksLoading, completeLoading, load,
                  complete, bridge, nextTx >>

\* catch + finally of handleCreateSubmit
CreateFailed ==
  /\ createLoading' = FALSE
  /\ create' = IdleCreate
  /\ toast' = ToastCreateError
  /\ UNCHANGED << spliced, uiVars, tasksLoading, tasks, completeLoading, load,
                  complete, bridge, nextTx, nextObj >>

\* encrypt resolves: pushdrop.create is called
EncryptOk ==
  /\ create.pc = "encrypt"
  /\ create' = [create EXCEPT !.pc = "pushdrop", !.enc = Encrypt(create.task)]
  /\ UNCHANGED << toast, spliced, uiVars, createLoading, tasksLoading, tasks,
                  completeLoading, load, complete, bridge, nextTx, nextObj >>

EncryptFail ==
  /\ create.pc = "encrypt"
  /\ CreateFailed

\* pushdrop.create resolves: createAction is called
PushdropCreateOk ==
  /\ create.pc = "pushdrop"
  /\ create' = [create EXCEPT !.pc = "createAction",
                              !.script = PushdropCreate(create.enc)]
  /\ UNCHANGED << toast, spliced, uiVars, createLoading, tasksLoading, tasks,
                  completeLoading, load, complete, bridge, nextTx, nextObj >>

PushdropCreateFail ==
  /\ create.pc = "pushdrop"
  /\ CreateFailed

\* the output of the action as the bridge indexes it
IndexedOutput(txid, satoshis, script) ==
  [ task |-> Base64(script[3]), sats |-> satoshis,
    token |-> [ txid |-> txid, outputIndex |-> 0, lockingScript |-> script ] ]

\* createAction broadcasts the transaction and hands it to the bridge
\* (bridges: [TODO_PROTO_ADDR]); its answer to the page is still to come
CreateActionCommit ==
  /\ create.pc = "createAction"
  /\ bridge' = Append(bridge,
                 IndexedOutput(nextTx, ToNumber(create.amount), create.script))
  /\ create' = [create EXCEPT !.pc = "created", !.txid = nextTx]
  /\ nextTx' = nextTx + 1
  /\ UNCHANGED << toast, spliced, uiVars, createLoading, tasksLoading, tasks,
                  completeLoading, load, complete, nextObj >>

CreateActionFail ==
  /\ create.pc = "createAction"
  /\ CreateFailed

\* the record the page makes of its own new token
NewTask(obj, text, amount, txid, script) ==
  [ obj |-> obj, task |-> text, sats |-> ToNumber(amount),
    token |-> [ txid |-> txid, outputIndex |-> 0, lockingScript |-> script ] ]

\* a slip: [...originalTasks, newTask]
PutLast(newTask, originalTasks) == originalTasks \o <<newTask>>

\* setTasks(originalTasks => [newTask, ...originalTasks])
Prepend(newTask, originalTasks) == <<newTask>> \o originalTasks

\* a slip: setTasks([newTask, ...tasks]) with the tasks of the render the
\* handler belongs to
CreateActionOkOnRendered ==
  /\ create.pc = "created"
  /\ tasks' = Prepend(NewTask(nextObj, create.task, create.amount,
                              create.txid, create.script), create.seen)
  /\ nextObj' = nextObj + 1
  /\ createTask' = ""
  /\ createAmount' = NumberValue(DefaultAmount)
  /\ createOpen' = FALSE
  /\ createLoading' = FALSE
  /\ create' = IdleCreate
  /\ toast' = ToastCreated
  /\ UNCHANGED << spliced, tasksLoading, completeOpen, selectedTask,
                  completeLoading, load, complete, bridge, nextTx >>

\* createAction resolves with the new token: the success path and finally
CreateActionOk ==
  /\ create.pc = "created"
  /\ tasks' = Prepend(NewTask(nextObj, create.task, create.amount,
                              create.txid, create.script), tasks)
  /\ nextObj' = nextObj + 1
  /\ createTask' = ""
  /\ createAmount' = NumberValue(DefaultAmount)
  /\ createOpen' = FALSE
  /\ createLoading' = FALSE
  /\ create' = IdleCreate
  /\ toast' = ToastCreated
  /\ UNCHANGED << spliced, tasksLoading, completeOpen, selectedTask,
                  completeLoading, load, complete, bridge, nextTx >>

\* ----------------------------------------------------- the completion dialog
\* a click on a list item; the list is rendered once tasksLoading is false
OpenCompleteModal ==
  /\ ~tasksLoading
  /\ \E i \in 1..Len(tasks) :
       /\ selectedTask' = tasks[i]
       /\ completeOpen' = TRUE
  /\ UNCHANGED << toast, spliced, createOpen, createTask, createAmount,
                  createLoading, tasksLoading, tasks, completeLoading, load,
                  create, complete, bridge, nextTx, nextObj >>

\* Cancel or the dialog's onClose: setCompleteOpen(false)
CloseComplete ==
  /\ completeOpen
  /\ completeOpen' = FALSE
  /\ UNCHANGED << toast, spliced, createOpen, createTask, createAmount,
                  createLoading, tasksLoading, tasks, selectedTask,
                  completeLoading, load, create, complete, bridge, nextTx,
                  nextObj >>

\* the arguments of pushdrop.redeem
RedeemRequestRebuilt(selected) ==
  [ prevTxId |-> selected.token.txid,
    outputIndex |-> selected.token.outputIndex,
    lockingScript |-> PushdropCreate(Encrypt(selected.task)),
    outputAmount |-> selected.sats ]

RedeemRequest(selected) ==
  [ prevTxId |-> selected.token.txid,
    outputIndex |-> selected.token.outputIndex,
    lockingScript |-> selected.token.lockingScript,
    outputAmount |-> selected.sats ]

\* the unlocking script pushdrop.redeem prepares for a request
PushdropRedeem(request) == <<"unlock", request>>

\* the inputs of the spending createAction: one entry, keyed by the txid
SpendInputs(selected, unlockingScript) ==
  [ txid |-> selected.token.txid,
    token |-> selected.token,
    outputsToRedeem |-> << [ index |-> selected.token.outputIndex,
                             unlockingScript |-> unlockingScript ] >> ]

\* a slip: setCompleteLoading(true) is missing
HandleCompleteSubmitNoIndicator ==
  /\ completeOpen
  /\ ~completeLoading
  /\ IF selectedTask.obj = 0
     THEN /\ toast' = ToastCompleteError
          /\ UNCHANGED complete
     ELSE /\ complete' = [IdleComplete EXCEPT
                             !.pc = "redeem",
                             !.sel = selectedTask,
                             !.seen = tasks,
                             !.request = RedeemRequest(selectedTask)]
          /\ UNCHANGED toast
  /\ UNCHANGED << spliced, uiVars, createLoading, tasksLoading, tasks, load,
                  create, bridge, nextTx, nextObj, completeLoading >>

\* handleCompleteSubmit up to its first await: the Complete Task button is
\* rendered only while completeLoading is false
HandleCompleteSubmit ==
  /\ completeOpen
  /\ ~completeLoading
  /\ IF selectedTask.obj = 0
     THEN \* selectedTask.token is undefined: TypeError, catch, finally
          /\ toast' = ToastCompleteError
          /\ completeLoading' = FALSE
          /\ UNCHANGED complete
     ELSE \* setCompleteLoading(true); pushdrop.redeem is called
          /\ completeLoading' = TRUE
          /\ complete' = [IdleComplete EXCEPT
                             !.pc = "redeem",
                             !.sel = selectedTask,
                             !.seen = tasks,
                             !.request = RedeemRequest(selectedTask)]
          /\ UNCHANGED toast
  /\ UNCHANGED << spliced, uiVars, createLoading, tasksLoading, tasks, load,
                  create, bridge, nextTx, nextObj >>

\* a slip: the record is taken out before the calls and not put back
CompleteFailedDropsRecord ==
  /\ completeLoading' = FALSE
  /\ complete' = IdleComplete
  /\ tasks' = SpliceOne(tasks, FindIndex(tasks, complete.sel))
  /\ toast' = ToastCompleteError
  /\ UNCHANGED << spliced, uiVars, createLoading, tasksLoading, load, create,
                  bridge, nextTx, nextObj >>

\* catch + finally of handleCompleteSubmit
CompleteFailed ==
  /\ completeLoading' = FALSE
  /\ complete' = IdleComplete
  /\ toast' = ToastCompleteError
  /\ UNCHANGED << spliced, uiVars, createLoading, tasksLoading, tasks, load,
                  create, bridge, nextTx, nextObj >>

\* pushdrop.redeem resolves: createAction is called with the input
RedeemOk ==
  /\ complete.pc = "redeem"
  /\ complete' = [complete EXCEPT
                     !.pc = "createAction",
                     !.inputs = SpendInputs(complete.sel,
                                            PushdropRedeem(complete.request))]
  /\ UNCHANGED << toast, spliced, uiVars, createLoading, tasksLoading, tasks,
                  completeLoading, load, create, bridge, nextTx, nextObj >>

RedeemFail ==
  /\ complete.pc = "redeem"
  /\ CompleteFailed

\* the bridge's index once the output txid.outputIndex is spent
Retire(index, token) ==
  SelectSeq(index, LAMBDA r : ~(r.token.txid = token.txid
                                /\ r.token.outputIndex = token.outputIndex))

\* createAction broadcasts the spend of an unspent output and tells the bridge
SpendCommit ==
  /\ complete.pc = "createAction"
  /\ \E i \in 1..Len(bridge) :
       /\ bridge[i].token.txid = complete.inputs.txid
       /\ bridge[i].token.outputIndex = complete.inputs.outputsToRedeem[1].index
  /\ bridge' = Retire(bridge, complete.inputs.token)
  /\ complete' = [complete EXCEPT !.pc = "spent"]
  /\ UNCHANGED << toast, spliced, uiVars, createLoading, tasksLoading, tasks,
                  completeLoading, load, create, nextTx, nextObj >>

SpendFail ==
  /\ complete.pc = "createAction"
  /\ CompleteFailed

\* a slip: the search never finds the record (findIndex gives -1)
RemoveTaskNotFound(oldTasks, selected) == SpliceOne(oldTasks, -1)

\* setTasks(oldTasks => { oldTasks.splice(oldTasks.findIndex(..), 1); .. })
RemoveTask(oldTasks, selected) == SpliceOne(oldTasks, FindIndex(oldTasks, selected))

\* a slip: the selection and the dialog are left as they are
SpendOkKeepsSelection ==
  /\ complete.pc = "spent"
  /\ tasks' = RemoveTask(tasks, complete.sel)
  /\ spliced' = <<FindIndex(tasks, complete.sel)>>
  /\ completeLoading' = FALSE
  /\ complete' = IdleComplete
  /\ toast' = ToastCompleted
  /\ UNCHANGED << uiVars, createLoading, tasksLoading, load, create, bridge,
                  nextTx, nextObj >>

\* createAction resolves: the success path and finally
SpendOk ==
  /\ complete.pc = "spent"
  /\ tasks' = RemoveTask(tasks, complete.sel)
  /\ spliced' = <<FindIndex(tasks, complete.sel)>>
  /\ selectedTask' = EmptyObject
  /\ completeOpen' = FALSE
  /\ completeLoading' = FALSE
  /\ complete' = IdleComplete
  /\ toast' = ToastCompleted
  /\ UNCHANGED << createOpen, createTask, createAmount, createLoading,
                  tasksLoading, load, create, bridge, nextTx, nextObj >>

\* --------------------------------------------------------------- the machine
Next ==
  \/ GetPublicKeyOk
  \/ GetPublicKeyFail
  \/ ParapetOk
  \/ ParapetFail
  \/ \E i \in 1..Len(load.fetched) : DecryptOk(i)
  \/ \E i \in 1..Len(load.fetched) : DecryptFail(i)
  \/ LoadSetTasks
  \/ OpenCreate
  \/ CloseCreate
  \/ SetCreateTask
  \/ SetCreateAmount
  \/ HandleCreateSubmit
  \/ EncryptOk
  \/ EncryptFail
  \/ PushdropCreateOk
  \/ PushdropCreateFail
  \/ CreateActionCommit
  \/ CreateActionFail
  \/ CreateActionOk
  \/ OpenCompleteModal
  \/ CloseComplete
  \/ HandleCompleteSubmit
  \/ RedeemOk
  \/ RedeemFail
  \/ SpendCommit
  \/ SpendFail
  \/ SpendOk

Spec == Init /\ [][Next]_vars

\* the load effect on its own, over more and more varied bridge contents
InitLoad == Mounted(BridgeStates(FetchTexts, MaxFetch))

NextLoad ==
  \/ GetPublicKeyOk
  \/ GetPublicKeyFail
  \/ ParapetOk
  \/ ParapetFail
  \/ \E i \in 1..Len(load.fetched) : DecryptOk(i)
  \/ \E i \in 1..Len(load.fetched) : DecryptFail(i)
  \/ LoadSetTasks

LoadSpec == InitLoad /\ [][NextLoad]_vars

\* creating while the list of a new user loads, over amounts around the two
\* thresholds
InitForm == Mounted({ << >> })

NextForm ==
  \/ NextLoad
  \/ OpenCreate
  \/ CloseCreate
  \/ SetCreateTask
  \/ SetCreateAmountFrom(WideAmountInputs)
  \/ HandleCreateSubmit
  \/ EncryptOk
  \/ EncryptFail
  \/ PushdropCreateOk
  \/ PushdropCreateFail
  \/ CreateActionCommit
  \/ CreateActionFail
  \/ CreateActionOk

FormSpec == InitForm /\ [][NextForm]_vars

\* the whole page when every call that was made is answered and every
\* answered call is continued: a pending promise settles, and the continuation
\* of a settled promise is run
Answered ==
  /\ WF_vars(GetPublicKeyOk \/ GetPublicKeyFail)
  /\ WF_vars(ParapetOk \/ ParapetFail)
  /\ WF_vars(\E i \in 1..Len(load.fetched) : DecryptOk(i) \/ DecryptFail(i))
  /\ WF_vars(LoadSetTasks)
  /\ WF_vars(EncryptOk \/ EncryptFail)
  /\ WF_vars(PushdropCreateOk \/ PushdropCreateFail)
  /\ WF_vars(CreateActionCommit \/ CreateActionFail)
  /\ WF_vars(CreateActionOk)
  /\ WF_vars(RedeemOk \/ RedeemFail)
  /\ WF_vars(SpendCommit \/ SpendFail)
  /\ WF_vars(SpendOk)

\* one task in the basket; the amount field is left at its default
InitFair == Mounted({b \in BridgeStates(BridgeTexts, 1) : Len(b) = 1})

NextFair ==
  \/ NextLoad
  \/ OpenCreate
  \/ CloseCreate
  \/ SetCreateTask
  \/ HandleCreateSubmit
  \/ EncryptOk
  \/ EncryptFail
  \/ PushdropCreateOk
  \/ PushdropCreateFail
  \/ CreateActionCommit
  \/ CreateActionFail
  \/ CreateActionOk
  \/ OpenCompleteModal
  \/ CloseComplete
  \/ HandleCompleteSubmit
  \/ RedeemOk
  \/ RedeemFail
  \/ SpendCommit
  \/ SpendFail
  \/ SpendOk

FairSpec == InitFair /\ [][NextFair]_vars /\ Answered

\* ------------------------------------------------------------------- claims
\* the steps of the machine the claims speak about
LoadFailureStep == load.pc \in {"getPublicKey", "parapet"} /\ load'.pc = "failed"
LoadSuccessStep == load.pc = "decrypt" /\ load'.pc = "done"
CreateSuccessStep == create.pc = "created" /\ create'.pc = "idle"
CreateFailureStep ==
  create.pc \in {"encrypt", "pushdrop", "createAction"} /\ create'.pc = "idle"
CompleteSuccessStep == complete.pc = "spent" /\ complete'.pc = "idle"
CompleteFailureStep ==
  complete.pc \in {"redeem", "createAction"} /\ complete'.pc = "idle"

\* the reference of a record: transaction id + output index
Reference(r) == <<r.token.txid, r.token.outputIndex>>

\* s with its k-th element taken out
Without(s, k) == [j \in 1..Len(s) - 1 |-> IF j < k THEN s[j] ELSE s[j + 1]]

\* the record r is in the store st
InStore(r, st) == \E k \in 1..Len(st) : st[k] = r

\* the amount a value of the amount field stands for, where it is a number
IsNumeric(a) == a.type = "number" \/ (a.s # << >> /\ IsDigits(a.s))
ValueOf(a) == IF a.type = "number" THEN a.n ELSE DigitsVal(a.s)

\* C1: a successful complete removes exactly the record that was selected
\* and leaves every other record in place and in order, wherever the
\* target is and whatever happened to the store since it was selected.
C1_CompleteRemovesExactlyTarget ==
  [][CompleteSuccessStep =>
       \E k \in 1..Len(tasks) :
         /\ tasks[k] = complete.sel
         /\ Reference(tasks[k]) = Reference(complete.sel)
         /\ tasks' = Without(tasks, k)]_vars

\* a complete has removed the record behind a record created meanwhile
C1_Witness ==
  /\ spliced = <<1>>
  /\ toast = ToastCompleted
  /\ Len(tasks) = 1
  /\ tasks[1].task = "milk"

\* C2: in every reachable state the store holds at most one record per
\* reference (transaction id + output index).
C2_OneRecordPerReference ==
  \A i, j \in 1..Len(tasks) :
    i # j => Reference(tasks[i]) # Reference(tasks[j])

\* C3: a successful create adds exactly one record, at the head, with the
\* submitted plain text and the submitted amount; the records that were in
\* the store follow it in their order.
C3_CreatePrependsOneRecord ==
  [][CreateSuccessStep =>
       /\ Len(tasks') = Len(tasks) + 1
       /\ tasks'[1].task = create.task
       /\ create.task \in TaskInputs \ {""}
       /\ tasks'[1].sats = Num(ValueOf(create.amount))
       /\ \A j \in 1..Len(tasks) : tasks'[j + 1] = tasks[j]]_vars

\* a create has put its record in front of a loaded one
C3_Witness ==
  /\ toast = ToastCreated
  /\ Len(tasks) = 2
  /\ tasks[1].task = "milk"
  /\ tasks[1].sats = Num(1000)
  /\ tasks[2].token.txid = 1
  /\ tasks[1].token.txid = 2

\* C4: a create whose amount is below the enforced minimum is rejected
\* before encrypt, pushdrop.create or createAction is called, and the store
\* is unchanged.
C4_LowAmountRejectedEarly ==
  [][(HandleCreateSubmit /\ IsNumeric(createAmount)
        /\ ValueOf(createAmount) < MinAmount) =>
       /\ create'.pc = "idle"
       /\ ~createLoading'
       /\ UNCHANGED << tasks, bridge, nextTx >>]_vars

\* 499 satoshis have just been refused
C4_Witness ==
  /\ toast = ToastAmountTooLow
  /\ createTask = "milk"
  /\ createAmount = StringValue(<<"4", "9", "9">>)
  /\ create.pc = "idle"
  /\ ~createLoading

\* C5: create refuses an amount as too low exactly when the rule stated in
\* the rejection message ('more than 200 satoshis') says it is too low.
C5_ThresholdAgreesWithMessage ==
  [][(HandleCreateSubmit /\ createTask # "" /\ IsNumeric(createAmount)) =>
       ((create'.pc = "idle" /\ toast' = ToastAmountTooLow)
          <=> ~(ValueOf(createAmount) > MessageThreshold))]_vars

\* C6: a create with an empty text, or with an amount that is absent or not
\* a number, is rejected before any call: no create is ever in flight, and no
\* output ever reaches the ledger, with an empty text or a non-numeric
\* amount, and the rejection leaves the store as it was.
C6_EmptyInputRejectedEarly ==
  /\ [](create.pc # "idle" =>
          create.task # "" /\ IsNumeric(create.amount))
  /\ [](\A i \in 1..Len(bridge) :
          /\ ~bridge[i].sats.nan
          /\ bridge[i].task # Base64(Encrypt("")))
  /\ [][(HandleCreateSubmit
           /\ (createTask = "" \/ ~IsNumeric(createAmount))) =>
          /\ create'.pc = "idle"
          /\ ~createLoading'
          /\ toast' \in {ToastEmptyTask, ToastEmptyAmount}
          /\ UNCHANGED << tasks, bridge, nextTx >>]_vars

\* a create without an amount has just been refused
C6_Witness ==
  /\ toast = ToastEmptyAmount
  /\ createTask = "milk"
  /\ createAmount = StringValue(<< >>)
  /\ create.pc = "idle"
  /\ ~createLoading

\* C7: a complete that fails, at pushdrop.redeem or at createAction, leaves
\* the store as it is, with the target still in it; a failure of
\* pushdrop.redeem ends the operation without a spend being submitted.
C7_FailedCompleteKeepsStore ==
  [][CompleteFailureStep =>
       /\ tasks' = tasks
       /\ InStore(complete.sel, tasks')
       /\ bridge' = bridge
       /\ complete' = IdleComplete]_vars

\* a complete has failed and its target is still listed
C7_Witness ==
  /\ toast = ToastCompleteError
  /\ complete.pc = "idle"
  /\ ~completeLoading
  /\ selectedTask.obj # 0
  /\ InStore(selectedTask, tasks)

\* C8: a create that fails after validation, at encrypt, pushdrop.create or
\* createAction, adds no record: the store is as it was.
C8_FailedCreateKeepsStore ==
  [][CreateFailureStep =>
       /\ tasks' = tasks
       /\ bridge' = bridge
       /\ create' = IdleCreate]_vars

\* a create has failed over a loaded list
C8_Witness ==
  /\ toast = ToastCreateError
  /\ create.pc = "idle"
  /\ ~createLoading
  /\ load.pc = "done"
  /\ Len(tasks) = 1

\* C9: a load of N raw records ends with N records in the store, in the
\* reverse of the fetch order, each with the amount and token of its raw
\* record, the placeholder text where decrypt failed and the decrypted text
\* elsewhere, in whatever order the decrypts were answered.
C9_LoadKeepsAllInReverseOrder ==
  [][LoadSuccessStep =>
       LET n == Len(load.fetched) IN
         /\ Len(tasks') = n
         /\ \A k \in 1..n :
              LET raw == load.fetched[k]
                  rec == tasks'[n + 1 - k]
              IN /\ rec.sats = raw.sats
                 /\ rec.token = raw.token
                 /\ IF k \in load.failed
                    THEN rec.task = PlaceholderText
                    ELSE \E t \in FetchTexts \cup TaskInputs :
                           /\ raw.task = Base64(Encrypt(t))
                           /\ rec.task = t]_vars

\* three records were loaded, the second one did not decrypt
C9_Witness ==
  /\ load.pc = "done"
  /\ load.failed = {2}
  /\ Len(tasks) = 3
  /\ tasks[1].token.txid = 3
  /\ tasks[1].task = "rent"
  /\ tasks[2].task = PlaceholderText
  /\ tasks[3].token.txid = 1
  /\ tasks[3].task = "old"

\* C10: a load that fails (key resolution or bridge query) leaves the store
\* with the contents it had before: neither cleared nor partly replaced.
C10_FailedLoadKeepsStore == [][LoadFailureStep => tasks' = tasks]_vars

\* a load has failed after a create had put a record in the store
C10_Witness ==
  /\ load.pc = "failed"
  /\ toast = ToastLoadError
  /\ ~tasksLoading
  /\ Len(tasks) = 1
  /\ tasks[1].task = "milk"

\* C11: right after a successful load the store is the reversed sequence of
\* the fetched-and-decrypted records and nothing else: whatever the store
\* held before is gone.
C11_LoadReplacesStore ==
  [][LoadSuccessStep =>
       /\ Len(tasks') = Len(load.out)
       /\ \A k \in 1..Len(load.out) :
            tasks'[k] = load.out[Len(load.out) + 1 - k]
       /\ \A k \in 1..Len(tasks) : ~InStore(tasks[k], tasks')]_vars

\* a load has ended after a create and has emptied the store
C11_Witness ==
  /\ load.pc = "done"
  /\ load.fetched = << >>
  /\ toast = ToastCreated
  /\ nextTx = 2
  /\ tasks = << >>

\* C12: the store changes of creates and completes that are in flight together
\* and all succeed are applied one at a time, in the order the operations
\* finish, each to the store as it is then: the result of a create keeps every
\* removal made since it was submitted, the result of a complete keeps every
\* record prepended since it was submitted.
C12_MutationsSerialized ==
  [][/\ CreateSuccessStep =>
          /\ Len(tasks') = Len(tasks) + 1
          /\ \A k \in 1..Len(tasks) : tasks'[k + 1] = tasks[k]
          /\ \A k \in 1..Len(create.seen) :
               ~InStore(create.seen[k], tasks)
                 => ~InStore(create.seen[k], tasks')
     /\ CompleteSuccessStep =>
          /\ \A k \in 1..Len(tasks) :
               (tasks[k] # complete.sel) => InStore(tasks[k], tasks')
          /\ \A k \in 1..Len(tasks') : InStore(tasks'[k], tasks)
          /\ ~InStore(complete.sel, tasks')]_vars

\* a complete has succeeded while a create was in flight, and the create is
\* about to succeed
C12_Witness ==
  /\ create.pc = "created"
  /\ complete.pc = "idle"
  /\ toast = ToastCompleted
  /\ \E k \in 1..Len(create.seen) : ~InStore(create.seen[k], tasks)

\* the records the running or finished load has fetched
LoadedObjects == {load.base + i - 1 : i \in 1..Len(load.fetched)}

\* the record r was put in the store by a create
FromCreate(r) == r.obj \notin LoadedObjects

\* C13: a record a successful create has put in the store stays there until a
\* complete on that record succeeds; a load that was in flight when the create
\* succeeded does not take it out.
C13_CreatedRecordStays ==
  [][\A k \in 1..Len(tasks) :
       FromCreate(tasks[k]) =>
         \/ InStore(tasks[k], tasks')
         \/ CompleteSuccessStep /\ complete.sel = tasks[k]]_vars

\* the output a reference names is no longer in the basket: a spend of it was
\* broadcast (only SpendCommit retires an output, and no txid is issued twice)
Spent(ref) ==
  \A i \in 1..Len(bridge) : Reference(bridge[i]) # ref

\* a complete on the reference has succeeded: its output is spent and the
\* complete that spent it is no longer waiting for createAction's answer
Redeemed(ref) ==
  /\ Spent(ref)
  /\ ~(complete.pc = "spent" /\ Reference(complete.sel) = ref)

\* C14: Redeemed is terminal: once a complete on a record has succeeded, no
\* record with that reference is in the store, in that state or in any later
\* one.
C14_RedeemedNeverInStore ==
  \A k \in 1..Len(tasks) : ~Redeemed(Reference(tasks[k]))

\* C15: a complete builds an unlocking script and issues a spend only for a
\* record that is in the store then, never for an empty selection and never
\* for a record that was already taken out: while a complete is past its first
\* call, the record it works on is a record of the store.
C15_CallsOnlyForStoredRecord ==
  complete.pc # "idle" =>
    /\ complete.sel # EmptyObject
    /\ InStore(complete.sel, tasks)
    /\ complete.request # << >>
    /\ complete.pc \in {"createAction", "spent"} => complete.inputs # << >>

\* the spend of the older of two stored records has been issued
C15_Witness ==
  /\ complete.pc = "createAction"
  /\ Len(tasks) = 2
  /\ tasks[2] = complete.sel
  /\ complete.inputs.txid = tasks[2].token.txid

\* C16: the reference, the locking script and the amount of a record do not
\* change while the record is in the store, and the unlock request and the
\* spend submission of a complete carry the stored reference, locking script
\* and amount of the selected record (the spend carries the amount inside the
\* unlocking script made from the request).
C16_StoredFieldsFrozenAndUsed ==
  /\ [][\A k \in 1..Len(tasks) : \A j \in 1..Len(tasks') :
          tasks'[j].obj = tasks[k].obj => tasks'[j] = tasks[k]]_vars
  /\ [](\A k \in 1..Len(tasks) :
          (complete.pc # "idle" /\ tasks[k].obj = complete.sel.obj) =>
            /\ complete.request.prevTxId = tasks[k].token.txid
            /\ complete.request.outputIndex = tasks[k].token.outputIndex
            /\ complete.request.lockingScript = tasks[k].token.lockingScript
            /\ complete.request.outputAmount = tasks[k].sats
            /\ complete.pc \in {"createAction", "spent"} =>
                 /\ complete.inputs.txid = tasks[k].token.txid
                 /\ complete.inputs.token.lockingScript
                      = tasks[k].token.lockingScript
                 /\ complete.inputs.outputsToRedeem[1].index
                      = tasks[k].token.outputIndex
                 /\ complete.inputs.outputsToRedeem[1].unlockingScript[2]
                      .outputAmount = tasks[k].sats)

\* the spend of a record whose text could not be decrypted has been issued
\* while a newer record sits in front of it
C16_Witness ==
  /\ complete.pc = "spent"
  /\ Len(tasks) = 2
  /\ complete.sel = tasks[2]
  /\ tasks[2].task = PlaceholderText
  /\ complete.inputs.token = tasks[2].token

====
